---- MODULE Spec2Model ----
(***************************************************************************)
(* Model of the column/fact registry report engine of                      *)
(* getS3StorageInfoOne01.py: the fact collectors, ensure_facts, the column *)
(* registry, the dependency planner and the per-bucket loop of main().     *)
(***************************************************************************)
EXTENDS Integers, Sequences, FiniteSets, TLC

\* ------------------------------------------------------------------ bounds
MaxBuckets == 2        \* buckets returned by list_buckets
MaxStorageTypes == 1   \* how many of the STORAGE_TYPES entries are modelled
MaxEnsureCalls == 3    \* ensure_facts calls made on one cache by the harness

\* ------------------------------------------------------------------ config
STORAGE_TYPES ==
    SubSeq(<<"StandardStorage", "StandardIAStorage", "OneZoneIAStorage",
             "ReducedRedundancyStorage", "GlacierStorage",
             "GlacierInstantRetrievalStorage", "GlacierDeepArchiveStorage",
             "IntelligentTieringFAStorage", "IntelligentTieringIAStorage",
             "IntelligentTieringAAStorage">>, 1, MaxStorageTypes)

Range(s) == {s[j] : j \in 1..Len(s)}

\* The empty dict / a dict that maps nothing.
EmptyDict == <<>>

\* ------------------------------------------------------- fact collectors
\* A collector either returns a value or raises.
Returned(v) == [raised |-> FALSE, val |-> v]
Raised == [raised |-> TRUE, val |-> EmptyDict]

\* Responses of sts.get_caller_identity().
STSResponses == {"ok", "ClientError"}
AccountId == "111122223333"

\* Responses of s3.get_bucket_tagging(): ok carries the TagSet as a dict.
TagSets ==
    { EmptyDict,
      [k \in {"cost_center"} |-> "cc1"],
      [k \in {"cost_center", "environment"} |->
          IF k = "cost_center" THEN "" ELSE "prod"] }
TaggingResponses ==
    { [kind |-> "ok", code |-> "", tags |-> t] : t \in TagSets }
    \cup { [kind |-> "ClientError", code |-> c, tags |-> EmptyDict] :
             c \in {"NoSuchTagSet", "AccessDenied"} }
    \cup { [kind |-> "BotoCoreError", code |-> "", tags |-> EmptyDict] }

\* Responses of cloudwatch: creating the client may raise; each
\* get_metric_statistics call returns no datapoints, the Average of the
\* latest datapoint (in half bytes, so that int() truncates), or ClientError.
Averages == {3}
MetricResponses ==
    { [kind |-> "empty", avg |-> 0], [kind |-> "ClientError", avg |-> 0] }
    \cup { [kind |-> "ok", avg |-> a] : a \in Averages }
CloudWatchResponses ==
    { [kind |-> "ok", metrics |-> m] :
        m \in [Range(STORAGE_TYPES) -> MetricResponses] }
    \cup { [kind |-> "BotoCoreError",
            metrics |-> [s \in Range(STORAGE_TYPES) |->
                            [kind |-> "empty", avg |-> 0]]] }

\* What the three services answer for one bucket.
Environments ==
    [sts : STSResponses, tagging : TaggingResponses,
     cloudwatch : CloudWatchResponses]

\* What the services answer when only the collectors of `needed` run: a
\* service that is not called gives the one answer NoCall stands for.
NoCall ==
    [sts |-> "ok",
     tagging |-> [kind |-> "ok", code |-> "", tags |-> EmptyDict],
     cloudwatch |-> [kind |-> "BotoCoreError",
                     metrics |-> [s \in Range(STORAGE_TYPES) |->
                                     [kind |-> "empty", avg |-> 0]]]]

EnvironmentsFor(needed) ==
    [sts : IF "account_id" \in needed THEN STSResponses ELSE {NoCall.sts},
     tagging : IF "tags" \in needed THEN TaggingResponses
               ELSE {NoCall.tagging},
     cloudwatch : IF "sizes_by_type" \in needed THEN CloudWatchResponses
                  ELSE {NoCall.cloudwatch}]

fact_account_id(env) ==
    IF env.sts = "ok" THEN Returned(AccountId) ELSE Raised

fact_tags(env) ==
    CASE env.tagging.kind = "ok" -> Returned(env.tagging.tags)
      [] env.tagging.kind = "ClientError" -> Returned(EmptyDict)
      [] OTHER -> Raised

fact_sizes_by_type(env) ==
    IF env.cloudwatch.kind # "ok" THEN Raised
    ELSE LET m == env.cloudwatch.metrics
             have == {s \in Range(STORAGE_TYPES) : m[s].kind = "ok"}
         IN Returned([s \in have |-> m[s].avg])

FACT_COLLECTORS == {"account_id", "tags", "sizes_by_type"}

Collector(key, env) ==
    CASE key = "account_id" -> fact_account_id(env)
      [] key = "tags" -> fact_tags(env)
      [] key = "sizes_by_type" -> fact_sizes_by_type(env)

\* ------------------------------------------------------------ ensure_facts
\* The for loop of ensure_facts over `order`, one iteration order of the set
\* `needed`.  facts is ctx.facts, trace the collectors invoked so far.
RECURSIVE ensure_loop(_, _, _, _, _)
ensure_loop(facts, order, j, env, trace) ==
    IF j > Len(order)
    THEN [facts |-> facts, trace |-> trace, raised |-> "none"]
    ELSE LET key == order[j] IN
         IF key \in DOMAIN facts
         THEN ensure_loop(facts, order, j + 1, env, trace)
         ELSE IF key \notin FACT_COLLECTORS
         THEN [facts |-> facts, trace |-> trace, raised |-> "KeyError"]
         ELSE LET r == Collector(key, env) IN
              IF r.raised
              THEN [facts |-> facts, trace |-> Append(trace, key),
                    raised |-> "CollectorError"]
              ELSE ensure_loop(facts @@ (key :> r.val), order, j + 1, env,
                               Append(trace, key))

ensure_facts(facts, order, env) == ensure_loop(facts, order, 1, env, <<>>)

\* The iteration orders of a set.
RECURSIVE Orders(_)
Orders(S) ==
    IF S = {} THEN {<<>>}
    ELSE UNION {{<<x>> \o o : o \in Orders(S \ {x})} : x \in S}

\* -------------------------------------------------------- column providers
\* dict.get(key, default)
Get(d, key, default) == IF key \in DOMAIN d THEN d[key] ELSE default

RECURSIVE SumValues(_)
SumValues(d) ==
    IF DOMAIN d = {} THEN 0
    ELSE LET k == CHOOSE x \in DOMAIN d : TRUE
         IN d[k] + SumValues([x \in DOMAIN d \ {k} |-> d[x]])

\* int() of an amount held in half bytes.
int(halves) == halves \div 2

\* sorted() order of the tag keys that occur in TagSets.
SortedTagKeys == <<"cost_center", "environment">>

col_bucket_name(ctx) == ctx.bucket_name

col_region(ctx) == ctx.region

col_account_id(ctx) == Get(ctx.facts, "account_id", "")

col_total_bytes(ctx) ==
    LET sizes == Get(ctx.facts, "sizes_by_type", EmptyDict)
    IN int(SumValues(sizes))

\* The joined string "k=v;k=v" is held as the sequence of its <<k, v>> items;
\* the empty string is the empty sequence.
RECURSIVE join_items(_, _)
join_items(tags, j) ==
    IF j > Len(SortedTagKeys) THEN <<>>
    ELSE (IF SortedTagKeys[j] \in DOMAIN tags
          THEN <<<<SortedTagKeys[j], tags[SortedTagKeys[j]]>>>>
          ELSE <<>>) \o join_items(tags, j + 1)

col_tags_kv(ctx) ==
    LET tags == Get(ctx.facts, "tags", EmptyDict)
    IN IF DOMAIN tags = {} THEN <<>> ELSE join_items(tags, 1)

_tag_value(ctx, key) ==
    LET tags == Get(ctx.facts, "tags", EmptyDict)
    IN Get(tags, key, "")

col_tag_cost_center(ctx) == _tag_value(ctx, "cost_center")

col_tag_environment(ctx) == _tag_value(ctx, "environment")

\* ColumnDef.provider of the column called name.
provider(name, ctx) ==
    CASE name = "bucket_name" -> col_bucket_name(ctx)
      [] name = "region" -> col_region(ctx)
      [] name = "account_id" -> col_account_id(ctx)
      [] name = "total_bytes" -> col_total_bytes(ctx)
      [] name = "tags" -> col_tags_kv(ctx)
      [] name = "tag_cost_center" -> col_tag_cost_center(ctx)
      [] name = "tag_environment" -> col_tag_environment(ctx)

\* --------------------------------------------------------- column registry
ColumnDef(name, enabled, requires) ==
    [name |-> name, enabled |-> enabled, requires |-> requires]

\* COLUMNS as the source ships it.
SourceColumns ==
    << ColumnDef("bucket_name", TRUE, {}),
       ColumnDef("region", TRUE, {}),
       ColumnDef("account_id", FALSE, {"account_id"}),
       ColumnDef("total_bytes", TRUE, {"sizes_by_type"}),
       ColumnDef("tags", TRUE, {"tags"}),
       ColumnDef("tag_cost_center", TRUE, {"tags"}),
       ColumnDef("tag_environment", TRUE, {"tags"}) >>

\* A fact key no collector is registered for (a misspelt requires entry).
UnregisteredKey == "account"

\* The registries an operator can edit COLUMNS into: any enabled flags (the
\* region column keeps the flag the source gives it), and optionally the
\* account_id column requiring the misspelt key.
Registries ==
    { [j \in 1..Len(SourceColumns) |->
         ColumnDef(SourceColumns[j].name,
                   IF SourceColumns[j].name = "region"
                   THEN SourceColumns[j].enabled ELSE en[j],
                   IF SourceColumns[j].name = "account_id" /\ typo
                   THEN {UnregisteredKey} ELSE SourceColumns[j].requires)] :
      en \in [1..Len(SourceColumns) -> BOOLEAN], typo \in BOOLEAN }

\* The comprehension building its result back to front.
RECURSIVE filter_enabled_rev(_, _)
filter_enabled_rev(columns, j) ==
    IF j > Len(columns) THEN <<>>
    ELSE filter_enabled_rev(columns, j + 1)
         \o (IF columns[j].enabled THEN <<columns[j]>> ELSE <<>>)

RECURSIVE filter_enabled(_, _)
filter_enabled(columns, j) ==
    IF j > Len(columns) THEN <<>>
    ELSE (IF columns[j].enabled THEN <<columns[j]>> ELSE <<>>)
         \o filter_enabled(columns, j + 1)

\* enabled_columns that forgets the `if c.enabled` filter.
enabled_columns_all(columns) == columns

enabled_columns(columns) == filter_enabled(columns, 1)

enabled_fieldnames(cs) == [j \in 1..Len(cs) |-> cs[j].name]

RECURSIVE required_loop(_, _, _)
required_loop(cs, j, req) ==
    IF j > Len(cs) THEN req
    ELSE required_loop(cs, j + 1, req \cup cs[j].requires)

required_facts(cs) == required_loop(cs, 1, {})

\* ------------------------------------------------------------- row context
\* RowContext(base=BucketBase(...)): facts comes from default_factory=dict,
\* whatever the facts of the context built before it (last_facts) were.
\* facts declared as one dict shared by every RowContext.
RowContext_shared(bucket_name, region, last_facts) ==
    [bucket_name |-> bucket_name, region |-> region, facts |-> last_facts]

RowContext(bucket_name, region, last_facts) ==
    [bucket_name |-> bucket_name, region |-> region, facts |-> EmptyDict]

\* Python's None, for the region.
None == "None"

LocationResponses ==
    { [kind |-> "ok", LocationConstraint |-> None],
      [kind |-> "ok", LocationConstraint |-> "eu-west-1"],
      [kind |-> "ClientError", LocationConstraint |-> None] }

get_bucket_region(resp) ==
    IF resp.kind = "ClientError" THEN None
    ELSE IF resp.LocationConstraint = None THEN "us-east-1"
    ELSE resp.LocationConstraint

\* `if not region` that lets a bucket without region through.
not_region_never(region) == FALSE

\* `not region` of line 232: None and the empty string are falsy.
not_region(region) == region \in {None, ""}

\* writer.writerow() putting the row before the rows already written.
writerow_first(written, b) == <<b>> \o written

\* writer.writerow(row): the row of bucket b goes after the rows written.
writerow(written, b) == Append(written, b)

\* row = {}; for c in cols: row[c.name] = c.provider(ctx).  The dict keeps
\* insertion order: a row is the sequence of its <<name, value>> items.
RECURSIVE build_row(_, _, _, _)
build_row(cs, j, ctx, row) ==
    IF j > Len(cs) THEN row
    ELSE build_row(cs, j + 1, ctx,
                   Append(row, <<cs[j].name, provider(cs[j].name, ctx)>>))

\* The row loop starting one column late.
render_row_skip(cs, ctx) == build_row(cs, 2, ctx, <<>>)

render_row(cs, ctx) == build_row(cs, 1, ctx, <<>>)

\* ----------------------------------------------------------------- state
VARIABLES
    COLUMNS,                \* the column registry of this run
    pc,                     \* position of main()
    cols,                   \* main: cols
    fieldnames,             \* main: fieldnames
    facts_needed_globally,  \* main: facts_needed_globally
    buckets,                \* main: bucket names, in the order listed
    i,                      \* index in buckets of the bucket being processed
    ctx,                    \* the RowContext built last
    header,                 \* what writer.writeheader() wrote, <<>> before
    headerWritten,          \* writer.writeheader() has run
    lastRow,                \* the row handed to writer.writerow() last
    rowsOf,                 \* bucket index of every row written, in order
    status,                 \* per bucket: state of the resource
    invoked,                \* per bucket, per fact key: collector invocations
    collected,              \* per fact key: what its collector returned for
                            \*   the bucket being processed
    failed,                 \* <<bucket index, key>> whose collector raised
    regionLookups,          \* get_bucket_region calls made
    regions,                \* per bucket: did get_bucket_region return None
                            \*   or a region
    error,                  \* exception that left main(), or "none"
    \* one cache under a sequence of ensure_facts calls
    hphase,                 \* "idle" while main() is modelled, else "calls"
    henv,                   \* what the services answer for the resource
    hfacts,                 \* ctx.facts
    hcalls,                 \* per fact key: collector invocations
    hfailed,                \* keys whose collector has raised
    hraised,                \* how the last ensure_facts call ended
    hn,                     \* ensure_facts calls made
    hneeded,                \* the needed set of the last call
    kunion,                 \* union of the needed sets of the last two calls
    sfacts, scalls,         \* hfacts, hcalls before the last two calls
    ufacts, ucalls, udone   \* one call with the union, from sfacts, scalls

mainVars ==
    <<COLUMNS, pc, cols, fieldnames, facts_needed_globally, buckets, i, ctx,
      header, headerWritten, lastRow, rowsOf, status, invoked, collected,
      failed, regionLookups, regions, error>>

harnessVars ==
    <<hphase, henv, hfacts, hcalls, hfailed, hraised, hn, hneeded, kunion, sfacts,
      scalls, ufacts, ucalls, udone>>

vars == <<mainVars, harnessVars>>

BucketNames == [b \in 1..(MaxBuckets + 1) |-> <<"bucket", b>>]

AllKeys == FACT_COLLECTORS \cup {UnregisteredKey}

NoCalls == [k \in FACT_COLLECTORS |-> 0]

NoEnv == NoCall

\* No get_bucket_region call made yet for the bucket.
Pending == "pending"

\* get_bucket_region returned a region for the bucket.
Resolved == "resolved"

NoCtx == [bucket_name |-> <<"bucket", 0>>, region |-> None,
          facts |-> EmptyDict]

MainInit ==
    /\ COLUMNS \in Registries
    /\ pc = "start"
    /\ cols = <<>>
    /\ fieldnames = <<>>
    /\ facts_needed_globally = {}
    /\ buckets = <<>>
    /\ i = 0
    /\ ctx = NoCtx
    /\ header = <<>>
    /\ headerWritten = FALSE
    /\ lastRow = <<>>
    /\ rowsOf = <<>>
    /\ status = <<>>
    /\ invoked = <<>>
    /\ collected = EmptyDict
    /\ failed = {}
    /\ regionLookups = 0
    /\ regions = <<>>
    /\ error = "none"

HarnessIdle ==
    /\ hphase = "idle"
    /\ henv = NoEnv
    /\ hfacts = EmptyDict
    /\ hcalls = NoCalls
    /\ hfailed = {}
    /\ hraised = "none"
    /\ hn = 0
    /\ hneeded = {}
    /\ kunion = {}
    /\ sfacts = EmptyDict
    /\ scalls = NoCalls
    /\ ufacts = EmptyDict
    /\ ucalls = NoCalls
    /\ udone = FALSE

Init == MainInit /\ HarnessIdle

\* Count the invocations of trace into the counters c.
Counted(c, trace) ==
    [k \in DOMAIN c |-> c[k] + Cardinality({j \in 1..Len(trace) : trace[j] = k})]

\* ------------------------------------------------------------------ main()
\* lines 209-214: cols, fieldnames, facts_needed_globally
main_plan ==
    /\ pc = "start"
    /\ cols' = enabled_columns(COLUMNS)
    /\ fieldnames' = enabled_fieldnames(enabled_columns(COLUMNS))
    /\ facts_needed_globally' = required_facts(enabled_columns(COLUMNS))
    /\ pc' = "list"
    /\ UNCHANGED <<COLUMNS, buckets, i, ctx, header, headerWritten, lastRow,
                   rowsOf, status, invoked, collected, failed, regionLookups,
                   regions,
                   error>>
    /\ UNCHANGED harnessVars

\* lines 216-223: list_buckets; a ClientError makes main() return.
main_list_buckets ==
    /\ pc = "list"
    /\ \/ /\ pc' = "returned"
          /\ UNCHANGED <<buckets, status, invoked, regions>>
       \/ \E n \in 0..MaxBuckets :
            /\ buckets' = [b \in 1..n |-> BucketNames[b]]
            /\ status' = [b \in 1..n |-> "Discovered"]
            /\ invoked' = [b \in 1..n |-> NoCalls]
            /\ regions' = [b \in 1..n |-> Pending]
            /\ pc' = "open"
    /\ UNCHANGED <<COLUMNS, cols, fieldnames, facts_needed_globally, i, ctx,
                   header, headerWritten, lastRow, rowsOf, collected, failed,
                   regionLookups, error>>
    /\ UNCHANGED harnessVars

\* lines 225-227: open the file, DictWriter(fieldnames), writeheader()
main_write_header ==
    /\ pc = "open"
    /\ header' = fieldnames
    /\ headerWritten' = TRUE
    /\ i' = 1
    /\ pc' = "loop"
    /\ UNCHANGED <<COLUMNS, cols, fieldnames, facts_needed_globally, buckets,
                   ctx, lastRow, rowsOf, status, invoked, collected, failed,
                   regionLookups, regions, error>>
    /\ UNCHANGED harnessVars

\* lines 229-241: next bucket, its region; no region: continue; else the
\* RowContext of the bucket.
main_get_region ==
    /\ pc = "loop"
    /\ i <= Len(buckets)
    /\ regionLookups' = regionLookups + 1
    /\ \E resp \in LocationResponses :
         LET region == get_bucket_region(resp) IN
         /\ regions' = [regions EXCEPT ![i] =
                         IF region = None THEN None ELSE Resolved]
         /\ IF not_region(region)
            THEN /\ status' = [status EXCEPT ![i] = "Skipped"]
                 /\ i' = i + 1
                 /\ UNCHANGED <<pc, ctx, collected>>
            ELSE /\ status' = [status EXCEPT ![i] = "FactsPending"]
                 /\ ctx' = RowContext(buckets[i], region, ctx.facts)
                 /\ collected' = EmptyDict
                 /\ pc' = "ensure"
                 /\ UNCHANGED i
    /\ UNCHANGED <<COLUMNS, cols, fieldnames, facts_needed_globally, buckets,
                   header, headerWritten, lastRow, rowsOf, invoked, failed,
                   error>>
    /\ UNCHANGED harnessVars

\* line 244: ensure_facts(ctx, facts_needed_globally); what it raises leaves
\* main().
main_ensure_facts ==
    /\ pc = "ensure"
    /\ \E order \in Orders(facts_needed_globally),
          env \in EnvironmentsFor(facts_needed_globally) :
         LET r == ensure_facts(ctx.facts, order, env)
             got == {k \in DOMAIN r.facts : k \notin DOMAIN ctx.facts}
         IN /\ ctx' = [ctx EXCEPT !.facts = r.facts]
            /\ invoked' = [invoked EXCEPT ![i] = Counted(@, r.trace)]
            /\ collected' = [k \in got |-> r.facts[k]]
            /\ IF r.raised = "none"
               THEN /\ status' = [status EXCEPT ![i] = "FactsResolved"]
                    /\ pc' = "render"
                    /\ UNCHANGED <<failed, error>>
               ELSE /\ pc' = "aborted"
                    /\ error' = r.raised
                    /\ failed' = IF r.raised = "CollectorError"
                                 THEN failed \cup {<<i, r.trace[Len(r.trace)]>>}
                                 ELSE failed
                    /\ UNCHANGED status
    /\ UNCHANGED <<COLUMNS, cols, fieldnames, facts_needed_globally, buckets,
                   i, header, headerWritten, lastRow, rowsOf, regionLookups,
                   regions>>
    /\ UNCHANGED harnessVars

\* lines 246-250: build the row and hand it to writer.writerow()
main_write_row ==
    /\ pc = "render"
    /\ lastRow' = render_row(cols, ctx)
    /\ rowsOf' = writerow(rowsOf, i)
    /\ status' = [status EXCEPT ![i] = "RowEmitted"]
    /\ i' = i + 1
    /\ pc' = "loop"
    /\ UNCHANGED <<COLUMNS, cols, fieldnames, facts_needed_globally, buckets,
                   ctx, header, headerWritten, invoked, collected, failed,
                   regionLookups, regions, error>>
    /\ UNCHANGED harnessVars

\* line 252: the loop is over, the file closes, main() returns.
main_finish ==
    /\ pc = "loop"
    /\ i > Len(buckets)
    /\ pc' = "done"
    /\ UNCHANGED <<COLUMNS, cols, fieldnames, facts_needed_globally, buckets,
                   i, ctx, header, headerWritten, lastRow, rowsOf, status,
                   invoked, collected, failed, regionLookups, regions, error>>
    /\ UNCHANGED harnessVars

Next ==
    \/ main_plan
    \/ main_list_buckets
    \/ main_write_header
    \/ main_get_region
    \/ main_ensure_facts
    \/ main_write_row
    \/ main_finish

Spec == Init /\ [][Next]_vars

\* ------------------------------------- ensure_facts, called on one cache
MainIdle ==
    /\ COLUMNS = SourceColumns
    /\ pc = "idle"
    /\ cols = <<>>
    /\ fieldnames = <<>>
    /\ facts_needed_globally = {}
    /\ buckets = <<>>
    /\ i = 0
    /\ ctx = NoCtx
    /\ header = <<>>
    /\ headerWritten = FALSE
    /\ lastRow = <<>>
    /\ rowsOf = <<>>
    /\ status = <<>>
    /\ invoked = <<>>
    /\ collected = EmptyDict
    /\ failed = {}
    /\ regionLookups = 0
    /\ regions = <<>>
    /\ error = "none"

\* A fresh RowContext and what the services answer for its bucket.
EnsureInit ==
    /\ MainIdle
    /\ hphase = "calls"
    /\ henv \in Environments
    /\ hfacts = RowContext(BucketNames[1], "us-east-1", EmptyDict).facts
    /\ hcalls = NoCalls
    /\ hfailed = {}
    /\ hraised = "none"
    /\ hn = 0
    /\ hneeded = {}
    /\ kunion = {}
    /\ sfacts = EmptyDict
    /\ scalls = NoCalls
    /\ ufacts = EmptyDict
    /\ ucalls = NoCalls
    /\ udone = FALSE

\* ensure_facts(ctx, needed) by a caller that catches what it raises.  The
\* cache and the counters are remembered before the last two calls.
call_ensure_facts ==
    /\ hphase = "calls"
    /\ hn < MaxEnsureCalls
    /\ \E needed \in SUBSET AllKeys :
         \E order \in Orders(needed) :
           LET r == ensure_facts(hfacts, order, henv) IN
           /\ hfacts' = r.facts
           /\ hcalls' = Counted(hcalls, r.trace)
           /\ hraised' = r.raised
           /\ hfailed' = IF r.raised = "CollectorError"
                         THEN hfailed \cup {r.trace[Len(r.trace)]}
                         ELSE hfailed
           /\ hneeded' = needed
           /\ kunion' = IF hn = MaxEnsureCalls - 1 THEN kunion \cup needed
                        ELSE needed
    /\ hn' = hn + 1
    /\ IF hn = MaxEnsureCalls - 2
       THEN sfacts' = hfacts /\ scalls' = hcalls
       ELSE UNCHANGED <<sfacts, scalls>>
    /\ UNCHANGED <<hphase, henv, ufacts, ucalls, udone>>
    /\ UNCHANGED mainVars

\* One ensure_facts call with the union of the last two needed sets, on the
\* cache as it was before them.
call_ensure_union ==
    /\ hphase = "calls"
    /\ hn = MaxEnsureCalls
    /\ ~udone
    /\ \E order \in Orders(kunion) :
         LET r == ensure_facts(sfacts, order, henv) IN
         /\ ufacts' = r.facts
         /\ ucalls' = Counted(scalls, r.trace)
    /\ udone' = TRUE
    /\ UNCHANGED <<hphase, henv, hfacts, hcalls, hfailed, hraised, hn,
                   hneeded, kunion, sfacts, scalls>>
    /\ UNCHANGED mainVars

EnsureNext ==
    \/ call_ensure_facts
    \/ call_ensure_union

SpecEnsure == EnsureInit /\ [][EnsureNext]_vars

\* ================================================================ claims
Terminal == {"RowEmitted", "Skipped"}

\* Fact keys some enabled column of the registry requires.
EnabledRequires ==
    UNION {COLUMNS[j].requires : j \in {x \in DOMAIN COLUMNS : COLUMNS[x].enabled}}

\* Fact keys that only disabled columns require.
DisabledOnly ==
    UNION {COLUMNS[j].requires : j \in DOMAIN COLUMNS} \ EnabledRequires

\* C1 (SpecEnsure): over any sequence of ensure_facts calls on one cache,
\* the collector of each fact key is invoked at most once, also when it
\* raised the first time.
C1_Memoization == \A k \in FACT_COLLECTORS : hcalls[k] <= 1

\* C2 (Spec): a fact key required only by disabled columns is not in
\* required_facts(enabled_columns()), is not in facts_needed_globally, and
\* its collector is invoked for no bucket at any point of the run.
C2_Elision ==
    \A k \in DisabledOnly :
        /\ k \notin required_facts(enabled_columns(COLUMNS))
        /\ k \notin facts_needed_globally
        /\ k \in FACT_COLLECTORS =>
              \A b \in DOMAIN invoked : invoked[b][k] = 0

C2_Witness ==
    /\ pc = "done"
    /\ Len(rowsOf) >= 1
    /\ DisabledOnly \cap FACT_COLLECTORS # {}
    /\ \E b \in DOMAIN invoked :
         \E k \in FACT_COLLECTORS : invoked[b][k] = 1

\* C3 (SpecEnsure): when a collector of a needed (registered) key raises
\* during ensure_facts(ctx, needed), nothing is raised past ensure_facts,
\* the key stays absent, and every other needed key whose collector
\* succeeds is in the cache when the call returns.
C3_FailureIsolation ==
    LET fails(k) == Collector(k, henv).raised IN
    (hn >= 1 /\ hneeded \subseteq FACT_COLLECTORS
             /\ \E k \in hneeded : fails(k)) =>
        /\ hraised = "none"
        /\ \A k \in hneeded : fails(k) => k \notin DOMAIN hfacts
        /\ \A k \in hneeded : ~fails(k) => k \in DOMAIN hfacts

\* The neutral output of a column.
NeutralValue(name) ==
    CASE name = "total_bytes" -> 0
      [] name = "tags" -> <<>>
      [] OTHER -> ""

RequiresOf(name) ==
    UNION {COLUMNS[j].requires :
             j \in {x \in DOMAIN COLUMNS : COLUMNS[x].name = name}}

\* C4 (Spec): when the collector of a required fact raises for a bucket,
\* the run goes on, the row of the bucket is emitted, and in it every
\* column requiring the failed fact has its neutral value.
C4_DegradedRow ==
    \A f \in failed :
        /\ pc # "aborted"
        /\ pc = "done" => status[f[1]] = "RowEmitted"
        /\ (rowsOf # <<>> /\ rowsOf[Len(rowsOf)] = f[1]) =>
              \A j \in 1..Len(lastRow) :
                  f[2] \in RequiresOf(lastRow[j][1]) =>
                      lastRow[j][2] = NeutralValue(lastRow[j][1])

\* C5 (Spec): after list_buckets succeeded no collector failure leaves
\* main(): the run ends normally, with every bucket RowEmitted or Skipped.
C5_RunCompletion ==
    /\ error # "CollectorError"
    /\ pc = "done" => \A b \in DOMAIN status : status[b] \in Terminal

\* C6 (Spec): the row handed to the writer has a value for exactly the
\* enabled column names, each once; a bucket whose processing was cut short
\* has no row.
C6_NoPartialRows ==
    LET enabledNames ==
            {COLUMNS[j].name : j \in {x \in DOMAIN COLUMNS : COLUMNS[x].enabled}}
    IN /\ rowsOf # <<>> =>
            /\ {lastRow[j][1] : j \in 1..Len(lastRow)} = enabledNames
            /\ Len(lastRow) = Cardinality(enabledNames)
       /\ \A b \in DOMAIN status :
            status[b] # "RowEmitted" => b \notin Range(rowsOf)

C6_Witness ==
    /\ rowsOf # <<>>
    /\ Len(lastRow) >= 2
    /\ Len(lastRow) < Len(COLUMNS)
    /\ \E b \in DOMAIN status : status[b] = "Skipped"

\* C7 (Spec): fieldnames is the names of the enabled columns in
\* registration order, a later call of enabled_columns() gives the same
\* sequence, and the header and the keys of every row are that sequence.
C7_ColumnOrder ==
    LET en == {j \in DOMAIN COLUMNS : COLUMNS[j].enabled}
        \* the p-th enabled column of the registry
        nth(p) == CHOOSE j \in en : Cardinality({x \in en : x < j}) = p - 1
    IN pc # "start" =>
         /\ Len(fieldnames) = Cardinality(en)
         /\ \A p \in 1..Len(fieldnames) : fieldnames[p] = COLUMNS[nth(p)].name
         /\ enabled_fieldnames(enabled_columns(COLUMNS)) = fieldnames
         /\ headerWritten => header = fieldnames
         /\ rowsOf # <<>> =>
              [j \in 1..Len(lastRow) |-> lastRow[j][1]] = fieldnames

C7_Witness ==
    /\ pc = "done"
    /\ rowsOf # <<>>
    /\ Len(fieldnames) >= 2
    /\ \E j \in 1..(Len(COLUMNS) - 1) :
         ~COLUMNS[j].enabled /\ COLUMNS[j + 1].enabled

\* C8 (SpecEnsure): for key sets K1, K2 of registered keys, ensure_facts
\* with K1 and then with K2 leaves the cache, and the collector invocation
\* counts, that one call with K1 \cup K2 leaves.
C8_Idempotence ==
    (udone /\ kunion \subseteq FACT_COLLECTORS) =>
        /\ hfacts = ufacts
        /\ hcalls = ucalls

\* C9 (Spec): with an enabled column requiring a key no collector is
\* registered for, the run fails before any region lookup, any collector
\* invocation, and any header or row is written, and never ends normally.
C9_FailFast ==
    (EnabledRequires \ FACT_COLLECTORS # {}) =>
        /\ regionLookups = 0
    /\ regions = <<>>
        /\ ~headerWritten
        /\ rowsOf = <<>>
        /\ \A b \in DOMAIN invoked :
             \A k \in FACT_COLLECTORS : invoked[b][k] = 0
        /\ pc # "done"

\* C10 (Spec): every bucket enters ensure_facts with an empty cache; once
\* its facts are resolved each required collector has been invoked exactly
\* once for it, the cache holds exactly what those invocations returned,
\* and its row is rendered from those values.
C10_CacheIsolation ==
    /\ pc = "ensure" => ctx.facts = EmptyDict
    /\ \A b \in DOMAIN status :
         status[b] \in {"FactsResolved", "RowEmitted"} =>
             \A k \in facts_needed_globally : invoked[b][k] = 1
    /\ pc = "render" =>
         /\ DOMAIN ctx.facts = facts_needed_globally
         /\ ctx.facts = collected
    /\ (rowsOf # <<>> /\ ctx.bucket_name = buckets[rowsOf[Len(rowsOf)]]) =>
         lastRow = render_row(cols, [ctx EXCEPT !.facts = collected])

C10_Witness ==
    /\ Len(rowsOf) >= 2
    /\ facts_needed_globally # {}
    /\ ctx.bucket_name = buckets[rowsOf[Len(rowsOf)]]
    /\ DOMAIN collected = facts_needed_globally
    /\ \E j \in 1..Len(lastRow) :
         lastRow[j][1] = "tag_cost_center" /\ lastRow[j][2] = "cc1"

\* C11 (Spec): a bucket for which get_bucket_region returned None is
\* Skipped: no collector is invoked for it, no RowContext is built and no
\* row is written for it, and the loop has moved on to the next bucket; a
\* bucket whose region was resolved is never Skipped.
C11_Skipped ==
    \A b \in DOMAIN status :
        /\ regions[b] = None =>
              /\ status[b] = "Skipped"
              /\ \A k \in FACT_COLLECTORS : invoked[b][k] = 0
              /\ b \notin Range(rowsOf)
              /\ ctx.bucket_name # buckets[b]
              /\ i > b
              /\ pc \in {"loop", "ensure", "render", "aborted", "done"}
        /\ regions[b] = Resolved => status[b] # "Skipped"

C11_Witness ==
    /\ facts_needed_globally # {}
    /\ \E b \in DOMAIN status :
         /\ regions[b] = None
         /\ b < Len(buckets)
         /\ status[b + 1] = "RowEmitted"

\* C12 (Spec): a collector has been invoked for a bucket only if every
\* bucket listed before it is RowEmitted or Skipped, and the rows written
\* are in the order their buckets were listed.
C12_Sequential ==
    /\ \A b \in DOMAIN invoked :
         (\E k \in FACT_COLLECTORS : invoked[b][k] > 0) =>
             \A b2 \in 1..(b - 1) : status[b2] \in Terminal
    /\ \A p, q \in 1..Len(rowsOf) : p < q => rowsOf[p] < rowsOf[q]

C12_Witness ==
    /\ pc = "done"
    /\ Len(rowsOf) >= 2
    /\ \E k \in FACT_COLLECTORS : invoked[rowsOf[2]][k] = 1

====
